---- MODULE Spec2Model ----
(***************************************************************************)
(* Legal document analysis service: the analysis pipeline of               *)
(* legal_document_processor.py, the PDF text extraction of                 *)
(* pdf_processor.py and the request handlers and job table                 *)
(* (processing_status) of simple_api.py.                                   *)
(*                                                                         *)
(* A text is a sequence of one-character strings.  A message (str(e), an   *)
(* HTTP detail) is a sequence of string segments, so that a message built  *)
(* by an f-string keeps its parts.  A call that may raise yields a record  *)
(* with the field raised; the inference models (spaCy, the QA pipeline,    *)
(* T5) and PyPDF2 are inputs: what they return or raise is chosen from     *)
(* the small sets below.                                                   *)
(***************************************************************************)
EXTENDS Integers, Sequences, FiniteSets

(***************************************************************************)
(* Bounds of the model.                                                    *)
(***************************************************************************)
MaxTasks == 2
\* The longest text given to the normalizer taken alone.
MaxLen == 5
\* The most words of a text given to the classifier taken alone.
MaxWords == 2
\* The most entities spaCy finds in a text given to the entity extractor
\* taken alone.
MaxEnts == 2

(***************************************************************************)
(* Python str primitives used by the code.                                 *)
(***************************************************************************)
\* The characters for which str.isspace() holds, which are those str.strip()
\* and str.split() take off and the class \s of re matches, up to U+00FF:
\* tab, line feed, vertical tab (U+000B), form feed, carriage return, the
\* separators U+001C to U+001F, space, next line (U+0085) and no-break space
\* (U+00A0).  The texts of the model hold no character above U+00FF.
Whitespace == {"\t", "\n", "", "\f", "\r", "", "", "", "", " ",
               "", " "}

\* The characters up to U+00FF that str.lower() changes, A to Z and U+00C0 to
\* U+00DE without the multiplication sign U+00D7, and at the same place in
\* LowerCase what str.lower() makes of each.
UpperCase == <<"A","B","C","D","E","F","G","H","I","J","K","L","M",
               "N","O","P","Q","R","S","T","U","V","W","X","Y","Z",
               "À","Á","Â","Ã","Ä","Å","Æ","Ç","È","É","Ê","Ë","Ì",
               "Í","Î","Ï","Ð","Ñ","Ò","Ó","Ô","Õ","Ö","Ø","Ù","Ú",
               "Û","Ü","Ý","Þ">>
LowerCase == <<"a","b","c","d","e","f","g","h","i","j","k","l","m",
               "n","o","p","q","r","s","t","u","v","w","x","y","z",
               "à","á","â","ã","ä","å","æ","ç","è","é","ê","ë","ì",
               "í","î","ï","ð","ñ","ò","ó","ô","õ","ö","ø","ù","ú",
               "û","ü","ý","þ">>

Digits == {"0","1","2","3","4","5","6","7","8","9"}

RECURSIVE lstrip(_)
lstrip(s) ==
    IF s = <<>> THEN <<>>
    ELSE IF Head(s) \in Whitespace THEN lstrip(Tail(s))
    ELSE s

RECURSIVE rstrip(_)
rstrip(s) ==
    IF s = <<>> THEN <<>>
    ELSE IF s[Len(s)] \in Whitespace THEN rstrip(SubSeq(s, 1, Len(s) - 1))
    ELSE s

\* str.strip()
strip(s) == rstrip(lstrip(s))

\* str.lower(), one character
lower_char(c) ==
    IF \E i \in 1..Len(UpperCase) : UpperCase[i] = c
    THEN LowerCase[CHOOSE i \in 1..Len(UpperCase) : UpperCase[i] = c]
    ELSE c

\* str.lower()
RECURSIVE lower(_)
lower(s) ==
    IF s = <<>> THEN <<>>
    ELSE <<lower_char(Head(s))>> \o lower(Tail(s))

\* sub in s
Contains(s, sub) ==
    \E i \in 1..(Len(s) - Len(sub) + 1) : SubSeq(s, i, i + Len(sub) - 1) = sub

RECURSIVE skip_run(_, _)
skip_run(s, cls) ==
    IF s = <<>> THEN <<>>
    ELSE IF Head(s) \in cls THEN skip_run(Tail(s), cls)
    ELSE s

\* re.sub(r'[cls]+', ' ', s): every maximal run of characters of cls
\* becomes one space.
RECURSIVE re_sub_runs(_, _)
re_sub_runs(s, cls) ==
    IF s = <<>> THEN <<>>
    ELSE IF Head(s) \in cls
         THEN <<" ">> \o re_sub_runs(skip_run(Tail(s), cls), cls)
         ELSE <<Head(s)>> \o re_sub_runs(Tail(s), cls)

\* len(s.split()): the number of maximal runs of non-whitespace characters.
RECURSIVE word_count(_)
word_count(s) ==
    LET t == lstrip(s)
    IN  IF t = <<>> THEN 0
        ELSE 1 + word_count(skip_run(t, {t[i] : i \in 1..Len(t)} \ Whitespace))

(***************************************************************************)
(* pdf_processor.py.  A PDF is what PyPDF2 makes of the bytes: either it   *)
(* raises (readable = FALSE, with the message of the exception) or it      *)
(* yields the texts of the pages.                                          *)
(***************************************************************************)
RECURSIVE join_pages(_)
join_pages(pages) ==
    IF pages = <<>> THEN <<>>
    ELSE Head(pages) \o <<"\n">> \o join_pages(Tail(pages))

\* extract_text_from_pdf with an except clause that returns no text in place
\* of raising.
extract_text_from_pdf_swallow(pdf_file) ==
    IF pdf_file.readable
    THEN [raised |-> FALSE, value |-> strip(join_pages(pdf_file.pages))]
    ELSE [raised |-> FALSE, value |-> <<>>]

extract_text_from_pdf(pdf_file) ==
    IF pdf_file.readable
    THEN [raised |-> FALSE, value |-> strip(join_pages(pdf_file.pages))]
    ELSE [raised |-> TRUE,
          exc |-> <<"Failed to process PDF file: ", pdf_file.exc>>]

(***************************************************************************)
(* legal_document_processor.py: the stages of the pipeline.                *)
(***************************************************************************)
\* preprocess_text without the strip() of its first line.
preprocess_text_unstripped(text) ==
    LET t1 == re_sub_runs(text, Whitespace)
        t2 == re_sub_runs(t1, {"\n"})
        t3 == re_sub_runs(t2, {"\t"})
    IN  t3

\* The three substitutions of preprocess_text; after the first one the text
\* holds no newline and no tab, the code applies the other two all the same.
preprocess_text(text) ==
    LET t1 == re_sub_runs(strip(text), Whitespace)
        t2 == re_sub_runs(t1, {"\n"})
        t3 == re_sub_runs(t2, {"\t"})
    IN  t3

\* The keys of doc_indicators in the order the dict declares them.
DocTypes == <<"contract", "license", "lease", "employment", "nda">>

doc_indicators == [
    contract |-> <<
        <<"a","g","r","e","e","m","e","n","t">>,
        <<"p","a","r","t","y">>,
        <<"w","h","e","r","e","a","s">>,
        <<"c","o","v","e","n","a","n","t">>>>,
    license |-> <<
        <<"l","i","c","e","n","s","e">>,
        <<"l","i","c","e","n","s","o","r">>,
        <<"l","i","c","e","n","s","e","e">>,
        <<"g","r","a","n","t">>>>,
    lease |-> <<
        <<"l","e","a","s","e">>,
        <<"l","e","s","s","o","r">>,
        <<"l","e","s","s","e","e">>,
        <<"r","e","n","t">>,
        <<"p","r","e","m","i","s","e","s">>>>,
    employment |-> <<
        <<"e","m","p","l","o","y","e","e">>,
        <<"e","m","p","l","o","y","e","r">>,
        <<"e","m","p","l","o","y","m","e","n","t">>,
        <<"s","a","l","a","r","y">>>>,
    nda |-> <<
        <<"c","o","n","f","i","d","e","n","t","i","a","l">>,
        <<"n","o","n","-","d","i","s","c","l","o","s","u","r","e">>,
        <<"p","r","o","p","r","i","e","t","a","r","y">>>>]

\* A score is the quotient score / len(indicators), kept as <<score, len>>.
frac_less(a, b) == a[1] * b[2] < b[1] * a[2]

\* max(scores, key=scores.get) if it returned the last of the keys of the
\* highest score.
last_max(scores) ==
    LET best == CHOOSE i \in 1..Len(DocTypes) :
                    /\ \A j \in 1..Len(DocTypes) :
                           ~ frac_less(scores[DocTypes[i]], scores[DocTypes[j]])
                    /\ \A k \in (i + 1)..Len(DocTypes) :
                           \E j \in 1..Len(DocTypes) :
                               frac_less(scores[DocTypes[k]], scores[DocTypes[j]])
    IN  DocTypes[best]

\* max(scores, key=scores.get): the first key, in declaration order, that no
\* key exceeds.
first_max(scores) ==
    LET best == CHOOSE i \in 1..Len(DocTypes) :
                    /\ \A j \in 1..Len(DocTypes) :
                           ~ frac_less(scores[DocTypes[i]], scores[DocTypes[j]])
                    /\ \A k \in 1..(i - 1) :
                           \E j \in 1..Len(DocTypes) :
                               frac_less(scores[DocTypes[k]], scores[DocTypes[j]])
    IN  DocTypes[best]

\* sum(1 for indicator in indicators if indicator in text_lower)
RECURSIVE count_present(_, _)
count_present(indicators, text_lower) ==
    IF indicators = <<>> THEN 0
    ELSE (IF Contains(text_lower, Head(indicators)) THEN 1 ELSE 0)
         + count_present(Tail(indicators), text_lower)

\* scores[doc_type] = score / len(indicators)
score_of(doc_type, text_lower) ==
    <<count_present(doc_indicators[doc_type], text_lower),
      Len(doc_indicators[doc_type])>>

\* The lowered text and the scores are computed once and then used as values.
classify_document_type(text) ==
    LET scores_of(text_lower) ==
            [contract |-> score_of("contract", text_lower),
             license |-> score_of("license", text_lower),
             lease |-> score_of("lease", text_lower),
             employment |-> score_of("employment", text_lower),
             nda |-> score_of("nda", text_lower)]
        classified(scores, predicted_type) ==
            [document_type |-> predicted_type,
             confidence |-> scores[predicted_type],
             all_scores |-> scores]
    IN  CHOOSE classification \in
            UNION {UNION {{classified(scores, predicted_type) :
                              predicted_type \in {first_max(scores)}} :
                          scores \in {scores_of(text_lower)}} :
                   text_lower \in {lower(text)}} : TRUE

\* re.findall(r'\$[\d,]+(?:\.\d{2})?', s)
RECURSIVE findall_money(_)
findall_money(s) ==
    IF s = <<>> THEN <<>>
    ELSE IF Head(s) = "$" /\ Len(s) >= 2 /\ s[2] \in Digits \cup {","}
         THEN LET rest == Tail(s)
                  after == skip_run(rest, Digits \cup {","})
                  cents == /\ Len(after) >= 3
                           /\ after[1] = "."
                           /\ after[2] \in Digits
                           /\ after[3] \in Digits
                  m == 1 + (Len(rest) - Len(after)) + (IF cents THEN 3 ELSE 0)
              IN  <<SubSeq(s, 1, m)>> \o findall_money(SubSeq(s, m + 1, Len(s)))
         ELSE findall_money(Tail(s))

\* The texts of the entities of doc.ents that carry the label, in order.
RECURSIVE ents_of(_, _)
ents_of(ents, label) ==
    IF ents = <<>> THEN <<>>
    ELSE (IF Head(ents).label_ = label THEN <<Head(ents).text>> ELSE <<>>)
         \o ents_of(Tail(ents), label)

\* nlp is what self.nlp(text) does in this call: it raises, or it returns the
\* entities doc.ents as records [label_, text].
extract_legal_entities(text, nlp) ==
    IF nlp.raised
    THEN [raised |-> TRUE, exc |-> nlp.exc]
    ELSE [raised |-> FALSE,
          value |-> [PERSON |-> ents_of(nlp.ents, "PERSON"),
                     ORG |-> ents_of(nlp.ents, "ORG"),
                     DATE |-> ents_of(nlp.ents, "DATE"),
                     MONEY |-> ents_of(nlp.ents, "MONEY"),
                     GPE |-> ents_of(nlp.ents, "GPE"),
                     monetary_amounts |-> findall_money(text)]]

\* A question is kept in the segments that clause_key tells apart.
contract_questions == <<
    <<"What is ", "the effective date", "?">>,
    <<"Who are the parties", "?">>,
    <<"What are ", "the payment terms", "?">>,
    <<"What is ", "the governing law", "?">> >>

employment_questions == <<
    <<"What is ", "the salary", "?">>,
    <<"What is ", "the job title", "?">>,
    <<"When does employment start", "?">>,
    <<"What are ", "the benefits", "?">> >>

generic_questions == <<
    <<"What are ", "the main terms", "?">>,
    <<"Who are the parties involved", "?">>,
    <<"What are ", "the key obligations", "?">> >>

\* The choice of the questions with the employment branch left out.
questions_for_no_employment(document_type) ==
    IF document_type = "contract" THEN contract_questions
    ELSE generic_questions

questions_for(document_type) ==
    IF document_type = "contract" THEN contract_questions
    ELSE IF document_type = "employment" THEN employment_questions
    ELSE generic_questions

\* question.replace("What is ", "").replace("What are ", "").replace("?", "")
clause_key(question) ==
    SelectSeq(question, LAMBDA seg : seg \notin {"What is ", "What are ", "?"})

\* The floor of the confidence, 0.1, in the unit of the scores (1/100).
ScoreFloor == 10

\* The loop body with the test result['score'] >= 0.1.
clause_step_inclusive(question, result, extracted_clauses) ==
    LET key == clause_key(question)
    IN  IF ~ result.raised /\ result.score >= ScoreFloor
        THEN [k \in DOMAIN extracted_clauses \cup {key} |->
                 IF k = key
                 THEN [text |-> result.answer, confidence |-> result.score]
                 ELSE extracted_clauses[k]]
        ELSE extracted_clauses

\* The loop body: the clauses after the question was handled.  An answer is
\* kept under the key of its question if its score is above the floor.
clause_step(question, result, extracted_clauses) ==
    LET key == clause_key(question)
    IN  IF ~ result.raised /\ result.score > ScoreFloor
        THEN [k \in DOMAIN extracted_clauses \cup {key} |->
                 IF k = key
                 THEN [text |-> result.answer, confidence |-> result.score]
                 ELSE extracted_clauses[k]]
        ELSE extracted_clauses

\* The loop without its try: the first question on which the pipeline raises
\* ends the call.
RECURSIVE clause_loop_untried(_, _, _)
clause_loop_untried(questions, qa, done) ==
    IF questions = <<>> THEN done
    ELSE LET question == Head(questions)
             result == qa[question]
             asked == Append(done.asked, question)
         IN  IF result.raised
             THEN [raised |-> TRUE, extracted_clauses |-> done.extracted_clauses,
                   asked |-> asked]
             ELSE clause_loop_untried(Tail(questions), qa,
                      [raised |-> FALSE,
                       extracted_clauses |->
                           clause_step(question, result, done.extracted_clauses),
                       asked |-> asked])

\* The loop over the questions.  qa[question] is what self.qa_pipeline does
\* with the question: it raises, or it returns an answer and a score.  done
\* holds extracted_clauses and asked, the questions the pipeline was called
\* with so far; the except clause logs and the loop goes on.
RECURSIVE clause_loop(_, _, _)
clause_loop(questions, qa, done) ==
    IF questions = <<>> THEN done
    ELSE LET question == Head(questions)
             result == qa[question]
         IN  clause_loop(Tail(questions), qa,
                 [raised |-> FALSE,
                  extracted_clauses |->
                      clause_step(question, result, done.extracted_clauses),
                  asked |-> Append(done.asked, question)])

\* One call of extract_key_clauses: whether it raised, the clauses it returns
\* and the calls of self.qa_pipeline it made.
extract_key_clauses_run(text, document_type, qa) ==
    clause_loop(questions_for(document_type), qa,
                [raised |-> FALSE, extracted_clauses |-> <<>>, asked |-> <<>>])

extract_key_clauses(text, document_type, qa) ==
    extract_key_clauses_run(text, document_type, qa).extracted_clauses

\* t5 is what the tokenizer and the T5 model do in this call: one of them
\* raises, or the decoded summary is returned.
generate_summary(text, t5) ==
    IF t5.raised
    THEN [raised |-> TRUE, exc |-> t5.exc]
    ELSE [raised |-> FALSE, value |-> t5.summary]

\* analyze_stages with a failure of the summary swallowed: the other fields
\* are returned with an empty summary.
analyze_stages_partial(text, processed_text, doc_classification, m) ==
    LET entities == extract_legal_entities(processed_text, m.nlp)
        clauses == extract_key_clauses(processed_text,
                                       doc_classification.document_type, m.qa)
        summary == generate_summary(processed_text, m.t5)
        upto_entities == <<"preprocess_text", "classify_document_type",
                           "extract_legal_entities">>
        upto_summary == upto_entities \o <<"extract_key_clauses", "generate_summary">>
    IN  IF entities.raised
        THEN [raised |-> TRUE, exc |-> entities.exc, calls |-> upto_entities]
        ELSE [raised |-> FALSE,
              calls |-> upto_summary,
              value |-> [document_info |->
                             [type |-> doc_classification.document_type,
                              confidence |-> doc_classification.confidence,
                              length |-> word_count(text),
                              processed_at |-> m.now],
                         entities |-> entities.value,
                         key_clauses |-> clauses,
                         summary |-> IF summary.raised THEN "" ELSE summary.value,
                         classification_scores |-> doc_classification.all_scores]]

\* analyze_stages with the clause extraction and the summary entered even
\* after the entity extraction has raised.
analyze_stages_eager(text, processed_text, doc_classification, m) ==
    LET entities == extract_legal_entities(processed_text, m.nlp)
        clause_type == doc_classification.document_type
        clauses == extract_key_clauses_run(processed_text, clause_type, m.qa)
        summary == generate_summary(processed_text, m.t5)
        upto_entities == <<"preprocess_text", "classify_document_type",
                           "extract_legal_entities">>
        upto_summary == upto_entities \o <<"extract_key_clauses", "generate_summary">>
    IN  IF entities.raised
        THEN [raised |-> TRUE, exc |-> entities.exc, calls |-> upto_summary,
              clause_type |-> clause_type, asked |-> clauses.asked]
        ELSE IF summary.raised
        THEN [raised |-> TRUE, exc |-> summary.exc, calls |-> upto_summary,
              clause_type |-> clause_type, asked |-> clauses.asked]
        ELSE [raised |-> FALSE,
              calls |-> upto_summary,
              clause_type |-> clause_type, asked |-> clauses.asked,
              value |-> [document_info |->
                             [type |-> doc_classification.document_type,
                              confidence |-> doc_classification.confidence,
                              length |-> word_count(text),
                              processed_at |-> m.now],
                         entities |-> entities.value,
                         key_clauses |-> clauses.extracted_clauses,
                         summary |-> summary.value,
                         classification_scores |-> doc_classification.all_scores]]

\* analyze_document from the entity extraction on, with the models' behaviour in
\* this call and the wall clock, m = [nlp, qa, t5, now].  calls lists the
\* stages entered, in order;
\* clause_type is the document_type handed to extract_key_clauses and asked the
\* questions it sent to the QA pipeline, once that stage is entered.
\* processed_at is datetime.now().isoformat(), what the clock shows when the
\* results are put together.
analyze_stages(text, processed_text, doc_classification, m) ==
    LET entities == extract_legal_entities(processed_text, m.nlp)
        clause_type == doc_classification.document_type
        clauses == extract_key_clauses_run(processed_text, clause_type, m.qa)
        summary == generate_summary(processed_text, m.t5)
        upto_entities == <<"preprocess_text", "classify_document_type",
                           "extract_legal_entities">>
        upto_summary == upto_entities \o <<"extract_key_clauses", "generate_summary">>
    IN  IF entities.raised
        THEN [raised |-> TRUE, exc |-> entities.exc, calls |-> upto_entities]
        ELSE IF summary.raised
        THEN [raised |-> TRUE, exc |-> summary.exc, calls |-> upto_summary,
              clause_type |-> clause_type, asked |-> clauses.asked]
        ELSE [raised |-> FALSE,
              calls |-> upto_summary,
              clause_type |-> clause_type, asked |-> clauses.asked,
              value |-> [document_info |->
                             [type |-> doc_classification.document_type,
                              confidence |-> doc_classification.confidence,
                              length |-> word_count(text),
                              processed_at |-> m.now],
                         entities |-> entities.value,
                         key_clauses |-> clauses.extracted_clauses,
                         summary |-> summary.value,
                         classification_scores |-> doc_classification.all_scores]]

\* analyze_document(text): the text is preprocessed and classified once, and
\* the two values are handed to the stages that follow.
analyze_document(text, m) ==
    CHOOSE results \in
        UNION {{analyze_stages(text, processed_text, doc_classification, m) :
                   doc_classification \in {classify_document_type(processed_text)}} :
               processed_text \in {preprocess_text(text)}} : TRUE

(***************************************************************************)
(* The inputs: what the callers send and what the collaborators do.        *)
(***************************************************************************)
TaskIds == 1..MaxTasks

\* file.filename of an upload
Filenames == {<<"a",".","p","d","f">>, <<"A",".","P","D","F">>, <<"a",".","t","x","t">>}

\* What PyPDF2 makes of the uploaded bytes.
PdfFiles == {
    [readable |-> FALSE, exc |-> "EOF marker not found"],
    [readable |-> TRUE, pages |-> << <<"\f">>, <<"\r">>, <<>> >>],
    [readable |-> TRUE, pages |-> << <<"R","e","n","t">>, <<"$","5"," ">> >>]}

\* await file.read(): the bytes arrive, or the read raises.
ReadOutcomes ==
    {[raised |-> TRUE, exc |-> <<"read failed">>]} \cup
    {[raised |-> FALSE, value |-> f] : f \in PdfFiles}

\* request.text of a synchronous request
RequestTexts == {
    <<>>,
    <<" ">>,
    <<"S","a","l","a","r","y","\t","$","1",",","5","0","0",".","0","0","\r","\n">>}

AllQuestions ==
    {contract_questions[i] : i \in 1..Len(contract_questions)} \cup
    {employment_questions[i] : i \in 1..Len(employment_questions)} \cup
    {generic_questions[i] : i \in 1..Len(generic_questions)}

qa_raises == [raised |-> TRUE, answer |-> "", score |-> 0]
qa_answers(score) == [raised |-> FALSE, answer |-> "answer", score |-> score]

\* The first question of each set raises, the second one scores exactly the
\* floor, the others score above it.
qa_mixed ==
    [q \in AllQuestions |->
        IF q \in {contract_questions[1], employment_questions[1], generic_questions[1]}
        THEN qa_raises
        ELSE IF q \in {contract_questions[2], employment_questions[2],
                       generic_questions[2]}
        THEN qa_answers(ScoreFloor)
        ELSE qa_answers(ScoreFloor + 1)]

QaBehaviours == {qa_mixed}

NlpBehaviours == {
    [raised |-> TRUE, exc |-> <<"spaCy failed">>],
    [raised |-> FALSE,
     ents |-> <<[label_ |-> "PERSON", text |-> "Ann"],
                [label_ |-> "LAW", text |-> "Act"],
                [label_ |-> "PERSON", text |-> "Ann"]>>]}

T5Behaviours == {
    [raised |-> TRUE, exc |-> <<"T5 failed">>],
    [raised |-> FALSE, summary |-> "summary"]}

\* datetime.now().isoformat(): what the wall clock shows in the call.  The
\* code stores the string and never reads it again.
Clock == {"2026-10-29T14:26:05.812758"}

ModelBehaviours ==
    {[nlp |-> n, qa |-> q, t5 |-> t, now |-> c] :
        n \in NlpBehaviours, q \in QaBehaviours, t \in T5Behaviours, c \in Clock}

(***************************************************************************)
(* simple_api.py: the job table and the handlers.                          *)
(*                                                                         *)
(* The handlers are coroutines of one event loop.  A handler runs alone    *)
(* from one await to the next: analyze_pdf_document yields at              *)
(* await file.read() and between its response and its background task;     *)
(* process_pdf_background holds no await, so from its first line to its    *)
(* return no other handler runs (loop holds the runner that holds the      *)
(* event loop).                                                            *)
(***************************************************************************)
VARIABLES
    processing_status,  \* the dict processing_status: task id -> entry
    uuids,              \* the ids uuid.uuid4() has returned
    pc,                 \* per task id: where its handler and its runner stand
    pdf_content,        \* per task id: the bytes read from the upload
    text,               \* per task id: the runner's local text
    used,               \* per task id: what the models did in the runner's analysis
    calls,              \* per task id: the pipeline stages the runner entered
    returned,           \* the task ids sent to a caller in a response
    loop,               \* the runner that holds the event loop, if any: {} or {task id}
    last                \* the step taken last and the response it sent

vars == <<processing_status, uuids, pc, pdf_content, text, used, calls, returned,
          loop, last>>

NoPdf == [readable |-> FALSE, exc |-> ""]
NoModels == [nlp |-> [raised |-> FALSE, ents |-> <<>>],
             qa |-> [q \in AllQuestions |-> qa_raises],
             t5 |-> [raised |-> FALSE, summary |-> ""],
             now |-> ""]
NoResponse == [status_code |-> 0]

\* processing_status[task_id] = entry
dict_set(d, k, v) == [x \in DOMAIN d \cup {k} |-> IF x = k THEN v ELSE d[x]]

\* s.endswith(suffix)
endswith(s, suffix) ==
    /\ Len(s) >= Len(suffix)
    /\ SubSeq(s, Len(s) - Len(suffix) + 1, Len(s)) = suffix

\* str(e) of a starlette HTTPException
str_http_exception(status_code, detail) == <<status_code, ": ", detail>>

\* raise HTTPException(status_code=500, detail=str(e))
http_500(detail) == [status_code |-> 500, detail |-> detail]

Init ==
    /\ processing_status = <<>>
    /\ uuids = {}
    /\ pc = [t \in TaskIds |-> "free"]
    /\ pdf_content = [t \in TaskIds |-> NoPdf]
    /\ text = [t \in TaskIds |-> <<>>]
    /\ used = [t \in TaskIds |-> NoModels]
    /\ calls = [t \in TaskIds |-> <<>>]
    /\ returned = {}
    /\ loop = {}
    /\ last = [op |-> "init", response |-> NoResponse]

\* POST /analyze
api_analyze_document(request_text, m) ==
    /\ loop = {}
    /\ LET results == analyze_document(request_text, m)
           response ==
               IF request_text = <<>>
               THEN http_500(str_http_exception("400", "No document content provided"))
               ELSE IF results.raised
               THEN http_500(results.exc)
               ELSE [status_code |-> 200, content |-> results.value]
           stages == IF request_text = <<>> THEN <<>> ELSE results.calls
       IN  last' = [op |-> "analyze", request |-> [text |-> request_text, models |-> m],
                    calls |-> stages, response |-> response]
    /\ UNCHANGED <<processing_status, uuids, pc, pdf_content, text, used, calls,
                   returned, loop>>

\* analyze_pdf_document with task ids that may repeat.
analyze_pdf_document_reuse(filename, task_id) ==
    /\ loop = {}
    /\ pc[task_id] \in {"free", "failed", "done"}
    /\ endswith(lower(filename), <<".", "p", "d", "f">>)
    /\ uuids' = uuids \cup {task_id}
    /\ processing_status' =
           dict_set(processing_status, task_id, [status |-> "starting", progress |-> 0])
    /\ pc' = [pc EXCEPT ![task_id] = "reading"]
    /\ last' = [op |-> "analyze_pdf", task_id |-> task_id, response |-> NoResponse]
    /\ UNCHANGED <<pdf_content, text, used, calls, returned, loop>>

\* POST /analyze-pdf, up to await file.read().  task_id is the value of
\* uuid.uuid4(), which returns no value twice.
analyze_pdf_document(filename, task_id) ==
    /\ loop = {}
    /\ IF ~ endswith(lower(filename), <<".", "p", "d", "f">>)
       THEN /\ last' = [op |-> "analyze_pdf", response |-> http_500(str_http_exception("400",
                                                  "File must be a PDF"))]
            /\ UNCHANGED <<processing_status, uuids, pc>>
       ELSE /\ task_id \notin uuids
            /\ uuids' = uuids \cup {task_id}
            /\ processing_status' =
                   dict_set(processing_status, task_id,
                            [status |-> "starting", progress |-> 0])
            /\ pc' = [pc EXCEPT ![task_id] = "reading"]
            /\ last' = [op |-> "analyze_pdf", task_id |-> task_id,
                        response |-> NoResponse]
    /\ UNCHANGED <<pdf_content, text, used, calls, returned, loop>>

\* POST /analyze-pdf, from the return of file.read() on: the background task
\* is added and the task id is returned, or the exception of the read is
\* turned into a 500.
analyze_pdf_document_resume(task_id, read) ==
    /\ loop = {}
    /\ pc[task_id] = "reading"
    /\ IF read.raised
       THEN /\ pc' = [pc EXCEPT ![task_id] = "failed"]
            /\ last' = [op |-> "analyze_pdf", task_id |-> task_id,
                        response |-> http_500(read.exc)]
            /\ UNCHANGED <<pdf_content, returned>>
       ELSE /\ pc' = [pc EXCEPT ![task_id] = "scheduled"]
            /\ pdf_content' = [pdf_content EXCEPT ![task_id] = read.value]
            /\ returned' = returned \cup {task_id}
            /\ last' = [op |-> "analyze_pdf", task_id |-> task_id,
                        response |-> [status_code |-> 200,
                                      content |-> [task_id |-> task_id,
                                                   status |-> "processing"]]]
    /\ UNCHANGED <<processing_status, uuids, text, used, calls, loop>>

\* process_pdf_background_start rebinding the table to a dict of this task
\* alone.
process_pdf_background_start_rebind(task_id) ==
    /\ loop = {}
    /\ pc[task_id] = "scheduled"
    /\ processing_status' =
           [x \in {task_id} |-> [status |-> "extracting_text", progress |-> 10]]
    /\ pc' = [pc EXCEPT ![task_id] = "extracting"]
    /\ loop' = {task_id}
    /\ last' = [op |-> "background", task_id |-> task_id, response |-> NoResponse]
    /\ UNCHANGED <<uuids, pdf_content, text, used, calls, returned>>

\* process_pdf_background, line 98
process_pdf_background_start(task_id) ==
    /\ loop = {}
    /\ pc[task_id] = "scheduled"
    /\ processing_status' =
           dict_set(processing_status, task_id,
                    [status |-> "extracting_text", progress |-> 10])
    /\ pc' = [pc EXCEPT ![task_id] = "extracting"]
    /\ loop' = {task_id}
    /\ last' = [op |-> "background", task_id |-> task_id, response |-> NoResponse]
    /\ UNCHANGED <<uuids, pdf_content, text, used, calls, returned>>

\* process_pdf_background_extract with the status of line 139 written at line
\* 110.
process_pdf_background_extract_restart(task_id) ==
    /\ loop = {task_id}
    /\ pc[task_id] = "extracting"
    /\ LET extracted == extract_text_from_pdf(pdf_content[task_id])
       IN  IF extracted.raised
           THEN /\ processing_status' =
                       dict_set(processing_status, task_id,
                                [status |-> "error", error |-> extracted.exc])
                /\ pc' = [pc EXCEPT ![task_id] = "done"]
                /\ loop' = {}
                /\ UNCHANGED text
           ELSE /\ text' = [text EXCEPT ![task_id] = extracted.value]
                /\ IF strip(extracted.value) = <<>>
                   THEN /\ processing_status' =
                               dict_set(processing_status, task_id,
                                        [status |-> "error",
                                         error |-> <<"Could not extract text from PDF">>])
                        /\ pc' = [pc EXCEPT ![task_id] = "done"]
                        /\ loop' = {}
                   ELSE /\ processing_status' =
                               dict_set(processing_status, task_id,
                                        [status |-> "starting", progress |-> 0])
                        /\ pc' = [pc EXCEPT ![task_id] = "analyzing"]
                        /\ UNCHANGED loop
    /\ last' = [op |-> "background", task_id |-> task_id, response |-> NoResponse]
    /\ UNCHANGED <<uuids, pdf_content, used, calls, returned>>

\* process_pdf_background_extract without the test of line 105.
process_pdf_background_extract_unchecked(task_id) ==
    /\ loop = {task_id}
    /\ pc[task_id] = "extracting"
    /\ LET extracted == extract_text_from_pdf(pdf_content[task_id])
       IN  IF extracted.raised
           THEN /\ processing_status' =
                       dict_set(processing_status, task_id,
                                [status |-> "error", error |-> extracted.exc])
                /\ pc' = [pc EXCEPT ![task_id] = "done"]
                /\ loop' = {}
                /\ UNCHANGED text
           ELSE /\ text' = [text EXCEPT ![task_id] = extracted.value]
                /\ processing_status' =
                       dict_set(processing_status, task_id,
                                [status |-> "analyzing", progress |-> 50])
                /\ pc' = [pc EXCEPT ![task_id] = "analyzing"]
                /\ UNCHANGED loop
    /\ last' = [op |-> "background", task_id |-> task_id, response |-> NoResponse]
    /\ UNCHANGED <<uuids, pdf_content, used, calls, returned>>

\* process_pdf_background, lines 101 to 110, and the except clause
process_pdf_background_extract(task_id) ==
    /\ loop = {task_id}
    /\ pc[task_id] = "extracting"
    /\ LET extracted == extract_text_from_pdf(pdf_content[task_id])
       IN  IF extracted.raised
           THEN /\ processing_status' =
                       dict_set(processing_status, task_id,
                                [status |-> "error", error |-> extracted.exc])
                /\ pc' = [pc EXCEPT ![task_id] = "done"]
                /\ loop' = {}
                /\ UNCHANGED text
           ELSE /\ text' = [text EXCEPT ![task_id] = extracted.value]
                /\ IF strip(extracted.value) = <<>>
                   THEN /\ processing_status' =
                               dict_set(processing_status, task_id,
                                        [status |-> "error",
                                         error |-> <<"Could not extract text from PDF">>])
                        /\ pc' = [pc EXCEPT ![task_id] = "done"]
                        /\ loop' = {}
                   ELSE /\ processing_status' =
                               dict_set(processing_status, task_id,
                                        [status |-> "analyzing", progress |-> 50])
                        /\ pc' = [pc EXCEPT ![task_id] = "analyzing"]
                        /\ UNCHANGED loop
    /\ last' = [op |-> "background", task_id |-> task_id, response |-> NoResponse]
    /\ UNCHANGED <<uuids, pdf_content, used, calls, returned>>

\* process_pdf_background_analyze storing the results without moving the
\* progress on.
process_pdf_background_analyze_progress(task_id, m) ==
    /\ loop = {task_id}
    /\ pc[task_id] = "analyzing"
    /\ LET results == analyze_document(text[task_id], m)
       IN  /\ calls' = [calls EXCEPT ![task_id] = results.calls]
           /\ used' = [used EXCEPT ![task_id] = m]
           /\ IF results.raised
              THEN processing_status' =
                       dict_set(processing_status, task_id,
                                [status |-> "error", error |-> results.exc])
              ELSE processing_status' =
                       dict_set(processing_status, task_id,
                                [status |-> "completed", progress |-> 50,
                                 results |-> results.value])
    /\ pc' = [pc EXCEPT ![task_id] = "done"]
    /\ loop' = {}
    /\ last' = [op |-> "background", task_id |-> task_id, response |-> NoResponse]
    /\ UNCHANGED <<uuids, pdf_content, text, returned>>

\* process_pdf_background, lines 113 to 120, and the except clause
process_pdf_background_analyze(task_id, m) ==
    /\ loop = {task_id}
    /\ pc[task_id] = "analyzing"
    /\ LET results == analyze_document(text[task_id], m)
       IN  /\ calls' = [calls EXCEPT ![task_id] = results.calls]
           /\ used' = [used EXCEPT ![task_id] = m]
           /\ IF results.raised
              THEN processing_status' =
                       dict_set(processing_status, task_id,
                                [status |-> "error", error |-> results.exc])
              ELSE processing_status' =
                       dict_set(processing_status, task_id,
                                [status |-> "completed", progress |-> 100,
                                 results |-> results.value])
    /\ pc' = [pc EXCEPT ![task_id] = "done"]
    /\ loop' = {}
    /\ last' = [op |-> "background", task_id |-> task_id, response |-> NoResponse]
    /\ UNCHANGED <<uuids, pdf_content, text, returned>>

\* get_processing_status with the clean-up its comment announces: a completed
\* or failed task is dropped once its status has been sent.
get_processing_status_cleanup(task_id) ==
    /\ loop = {}
    /\ last' = [op |-> "status", task_id |-> task_id,
                response |->
                    IF task_id \notin DOMAIN processing_status
                    THEN [status_code |-> 404, detail |-> <<"Task not found">>]
                    ELSE [status_code |-> 200,
                          content |-> processing_status[task_id]]]
    /\ processing_status' =
           IF /\ task_id \in DOMAIN processing_status
              /\ processing_status[task_id].status \in {"completed", "error"}
           THEN [x \in DOMAIN processing_status \ {task_id} |-> processing_status[x]]
           ELSE processing_status
    /\ UNCHANGED <<uuids, pc, pdf_content, text, used, calls, returned, loop>>

\* get_processing_status reading the table with a default: an unknown task is
\* reported as starting.
get_processing_status_default(task_id) ==
    /\ loop = {}
    /\ last' = [op |-> "status", task_id |-> task_id,
                response |->
                    [status_code |-> 200,
                     content |-> IF task_id \in DOMAIN processing_status
                                 THEN processing_status[task_id]
                                 ELSE [status |-> "starting", progress |-> 0]]]
    /\ UNCHANGED <<processing_status, uuids, pc, pdf_content, text, used, calls,
                   returned, loop>>

\* GET /status/{task_id}
get_processing_status(task_id) ==
    /\ loop = {}
    /\ last' = [op |-> "status", task_id |-> task_id,
                response |->
                    IF task_id \notin DOMAIN processing_status
                    THEN [status_code |-> 404, detail |-> <<"Task not found">>]
                    ELSE [status_code |-> 200,
                          content |-> processing_status[task_id]]]
    /\ UNCHANGED <<processing_status, uuids, pc, pdf_content, text, used, calls,
                   returned, loop>>

Next ==
    \/ \E request_text \in RequestTexts, m \in ModelBehaviours :
           api_analyze_document(request_text, m)
    \/ \E filename \in Filenames, task_id \in TaskIds :
           analyze_pdf_document(filename, task_id)
    \/ \E task_id \in TaskIds, read \in ReadOutcomes :
           analyze_pdf_document_resume(task_id, read)
    \/ \E task_id \in TaskIds : process_pdf_background_start(task_id)
    \/ \E task_id \in TaskIds : process_pdf_background_extract(task_id)
    \/ \E task_id \in TaskIds, m \in ModelBehaviours :
           process_pdf_background_analyze(task_id, m)
    \/ \E task_id \in TaskIds : get_processing_status(task_id)

Spec == Init /\ [][Next]_vars

\* Every await returns or raises, and the event loop runs every coroutine that
\* is ready: an upload being read is resumed, a background task that was added
\* is run, and a runner that has started runs to its return.
Fairness ==
    \A task_id \in TaskIds :
        /\ WF_vars(\E read \in ReadOutcomes : analyze_pdf_document_resume(task_id, read))
        /\ WF_vars(process_pdf_background_start(task_id))
        /\ WF_vars(process_pdf_background_extract(task_id))
        /\ WF_vars(\E m \in ModelBehaviours : process_pdf_background_analyze(task_id, m))

LiveSpec == Init /\ [][Next]_vars /\ Fairness

(***************************************************************************)
(* The stages of LegalDocumentProcessor taken alone: a caller holds the    *)
(* arguments of one call (last.op = "input") and makes the call; last      *)
(* then holds the arguments and what the call returned.  The job table     *)
(* is not touched.                                                         *)
(***************************************************************************)
\* The sequences over chars of length n or less.
RECURSIVE SeqsUpTo(_, _)
SeqsUpTo(chars, n) ==
    IF n = 0 THEN {<<>>}
    ELSE LET shorter == SeqsUpTo(chars, n - 1)
         IN  shorter \cup {Append(x, c) : x \in shorter, c \in chars}

\* The texts given to preprocess_text.
NormalizerChars == {" ", "\n", "\t", "\r", "\f", "a"}
NormalizerTexts == SeqsUpTo(NormalizerChars, MaxLen)

\* The words of the texts given to classify_document_type: an indicator in
\* upper case, an indicator that holds another one, two indicators of types
\* with as many indicators, one of the type with the fewest, one of the type
\* with the most, and a word that is no indicator, with an upper-case letter
\* above U+007F.
Vocabulary == {
    <<"P","A","R","T","Y">>,
    <<"l","i","c","e","n","s","e","e">>,
    <<"g","r","a","n","t">>,
    <<"r","e","n","t">>,
    <<"s","a","l","a","r","y">>,
    <<"p","r","o","p","r","i","e","t","a","r","y">>,
    <<"R","É","N","T">>}

\* ' '.join(words)
RECURSIVE join_words(_)
join_words(words) ==
    IF words = <<>> THEN <<>>
    ELSE IF Len(words) = 1 THEN Head(words)
    ELSE Head(words) \o <<" ">> \o join_words(Tail(words))

ClassifierTexts == {join_words(words) : words \in SeqsUpTo(Vocabulary, MaxWords)}

\* The document_type given to extract_key_clauses: a key of doc_indicators,
\* the default None, or any other string.
ClauseTypes == {DocTypes[i] : i \in 1..Len(DocTypes)} \cup {"None", "other"}

\* What self.qa_pipeline does with one question: it raises, or it answers
\* with a score below the floor, equal to it or above it.
QaOutcomes == {qa_raises, qa_answers(ScoreFloor - 1), qa_answers(ScoreFloor),
               qa_answers(ScoreFloor + 1)}

\* The place of a question in the list that holds it.
place(question) ==
    CHOOSE i \in 1..4 :
        \E questions \in {contract_questions, employment_questions, generic_questions} :
            i <= Len(questions) /\ questions[i] = question

\* The pipelines: one outcome for each place of a list of questions.
ClauseQaBehaviours ==
    {[q \in AllQuestions |-> outcome[place(q)]] : outcome \in [1..4 -> QaOutcomes]}

\* The entities of doc.ents: the five labels the code keeps and one it does
\* not, over two spans.
EntLabels == {"PERSON", "ORG", "DATE", "MONEY", "GPE", "LAW"}
EntSpans == {"Ann", "Bob"}
NerOutputs ==
    SeqsUpTo({[label_ |-> l, text |-> x] : l \in EntLabels, x \in EntSpans}, MaxEnts)

\* The texts given to analyze_document taken alone: those of the requests
\* and one of a lease.
AnalyzeTexts == RequestTexts \cup {<<"a","\r","b"," ","r","e","n","t">>}

StageInputs ==
    {[op |-> "input", stage |-> "preprocess_text", text |-> x] : x \in NormalizerTexts}
    \cup
    {[op |-> "input", stage |-> "classify_document_type", text |-> x] :
        x \in ClassifierTexts}
    \cup
    {[op |-> "input", stage |-> "extract_key_clauses", text |-> <<"a">>,
      document_type |-> document_type, qa |-> qa] :
        document_type \in ClauseTypes, qa \in ClauseQaBehaviours}
    \cup
    {[op |-> "input", stage |-> "extract_legal_entities", text |-> <<"$", "5">>,
      nlp |-> [raised |-> FALSE, ents |-> ents]] : ents \in NerOutputs}
    \cup
    {[op |-> "input", stage |-> "analyze_document", text |-> x, models |-> m] :
        x \in AnalyzeTexts, m \in ModelBehaviours}

StageInit ==
    /\ processing_status = <<>>
    /\ uuids = {}
    /\ pc = [t \in TaskIds |-> "free"]
    /\ pdf_content = [t \in TaskIds |-> NoPdf]
    /\ text = [t \in TaskIds |-> <<>>]
    /\ used = [t \in TaskIds |-> NoModels]
    /\ calls = [t \in TaskIds |-> <<>>]
    /\ returned = {}
    /\ loop = {}
    /\ last \in StageInputs

call_preprocess_text ==
    /\ last.op = "input"
    /\ last.stage = "preprocess_text"
    /\ last' = [op |-> "preprocess_text", text |-> last.text,
                result |-> preprocess_text(last.text)]
    /\ UNCHANGED <<processing_status, uuids, pc, pdf_content, text, used, calls,
                   returned, loop>>

call_classify_document_type ==
    /\ last.op = "input"
    /\ last.stage = "classify_document_type"
    /\ last' = [op |-> "classify_document_type", text |-> last.text,
                result |-> classify_document_type(last.text)]
    /\ UNCHANGED <<processing_status, uuids, pc, pdf_content, text, used, calls,
                   returned, loop>>

call_extract_key_clauses ==
    /\ last.op = "input"
    /\ last.stage = "extract_key_clauses"
    /\ LET run == extract_key_clauses_run(last.text, last.document_type, last.qa)
       IN  last' = [op |-> "extract_key_clauses", text |-> last.text,
                    document_type |-> last.document_type, qa |-> last.qa,
                    raised |-> run.raised, asked |-> run.asked,
                    result |-> IF run.raised THEN <<>>
                               ELSE extract_key_clauses(last.text, last.document_type,
                                                        last.qa)]
    /\ UNCHANGED <<processing_status, uuids, pc, pdf_content, text, used, calls,
                   returned, loop>>

call_extract_legal_entities ==
    /\ last.op = "input"
    /\ last.stage = "extract_legal_entities"
    /\ last' = [op |-> "extract_legal_entities", text |-> last.text,
                nlp |-> last.nlp,
                result |-> extract_legal_entities(last.text, last.nlp)]
    /\ UNCHANGED <<processing_status, uuids, pc, pdf_content, text, used, calls,
                   returned, loop>>

call_analyze_document ==
    /\ last.op = "input"
    /\ last.stage = "analyze_document"
    /\ last' = [op |-> "analyze_document", text |-> last.text,
                models |-> last.models,
                result |-> analyze_document(last.text, last.models)]
    /\ UNCHANGED <<processing_status, uuids, pc, pdf_content, text, used, calls,
                   returned, loop>>

StageNext ==
    \/ call_analyze_document
    \/ call_extract_legal_entities
    \/ call_preprocess_text
    \/ call_classify_document_type
    \/ call_extract_key_clauses

StageSpec == StageInit /\ [][StageNext]_vars

(***************************************************************************)
(* The properties.                                                         *)
(***************************************************************************)
\* The order STARTING < EXTRACTING_TEXT < ANALYZING < {COMPLETED, ERROR}.
Rank(status) ==
    CASE status = "starting" -> 0
      [] status = "extracting_text" -> 1
      [] status = "analyzing" -> 2
      [] status \in {"completed", "error"} -> 3

Terminal(entry) == entry.status \in {"completed", "error"}

\* C1: no step moves the status stored for a job to an earlier one in the
\* order STARTING < EXTRACTING_TEXT < ANALYZING < {COMPLETED, ERROR}: the
\* entry of a job stays in the table and its rank never decreases.
C1_StatusMonotone ==
    [][\A t \in DOMAIN processing_status :
          /\ t \in DOMAIN processing_status'
          /\ Rank(processing_status'[t].status) >= Rank(processing_status[t].status)]_vars

\* A job went through every status up to COMPLETED while another one ended
\* in ERROR.
C1_Witness ==
    \E t, u \in DOMAIN processing_status :
        /\ processing_status[t].status = "completed"
        /\ processing_status[u].status = "error"
        /\ calls[u] # <<>>

\* C2: an entry that is COMPLETED or ERROR is neither written nor removed by
\* any later step, and a status query of that job answers with that entry.
C2_TerminalFrozen ==
    [][\A t \in DOMAIN processing_status :
          Terminal(processing_status[t]) =>
              /\ t \in DOMAIN processing_status'
              /\ processing_status'[t] = processing_status[t]
              /\ (last'.op = "status" /\ last'.task_id = t) =>
                     last'.response = [status_code |-> 200,
                                       content |-> processing_status[t]]]_vars

\* A terminal entry has just been queried, and the table still holds it.
C2_Witness ==
    /\ last.op = "status"
    /\ last.task_id \in DOMAIN processing_status
    /\ Terminal(processing_status[last.task_id])
    /\ last.response.status_code = 200
    /\ Terminal(last.response.content)

\* C3: the submit registers an id that is no key of the table, with status
\* STARTING and progress 0; an entry is first written as STARTING, and no
\* entry is rewritten and no runner started before its id was returned to
\* the caller.
C3_SubmitRegistersStarting ==
    [][/\ \A t \in TaskIds :
             /\ (t \notin DOMAIN processing_status /\ t \in DOMAIN processing_status') =>
                    /\ processing_status'[t] = [status |-> "starting", progress |-> 0]
                    /\ t \notin returned'
             /\ (t \in DOMAIN processing_status /\ t \in DOMAIN processing_status'
                 /\ processing_status'[t] # processing_status[t]) =>
                    t \in returned
             /\ (pc'[t] \in {"extracting", "analyzing", "done"}) => t \in returned
       /\ (last'.op = "analyze_pdf" /\ last'.response = NoResponse) =>
              /\ last'.task_id \notin DOMAIN processing_status
              /\ last'.task_id \in DOMAIN processing_status']_vars

\* A second job has just been registered, not yet returned, next to a job that
\* has finished.
C3_Witness ==
    /\ last.op = "analyze_pdf"
    /\ last.response = NoResponse
    /\ processing_status[last.task_id] = [status |-> "starting", progress |-> 0]
    /\ last.task_id \notin returned
    /\ \E u \in returned : pc[u] = "done"

\* C4: a status query answers not-found exactly when the id is no key of the
\* table, answers with the stored entry otherwise, and leaves the table as it
\* was.
C4_Query ==
    [][last'.op = "status" =>
          /\ processing_status' = processing_status
          /\ (last'.response.status_code = 404) <=>
                 (last'.task_id \notin DOMAIN processing_status)
          /\ last'.task_id \in DOMAIN processing_status =>
                 last'.response = [status_code |-> 200,
                                   content |-> processing_status[last'.task_id]]]_vars

\* An unknown id has just been queried while the table holds another job.
C4_Witness ==
    /\ last.op = "status"
    /\ last.response.status_code = 404
    /\ last.task_id \notin DOMAIN processing_status
    /\ processing_status # <<>>

\* The pairing of status, progress and payload of one entry.
EntryWellFormed(entry) ==
    /\ entry.status \in {"starting", "extracting_text", "analyzing", "completed", "error"}
    /\ entry.status = "starting" => entry.progress = 0
    /\ entry.status = "extracting_text" => entry.progress = 10
    /\ entry.status = "analyzing" => entry.progress = 50
    /\ entry.status = "completed" => entry.progress = 100
    /\ ("results" \in DOMAIN entry) <=> (entry.status = "completed")
    /\ ("error" \in DOMAIN entry) <=> (entry.status = "error")

\* C5: every entry of the table, and every entry a status query has returned,
\* pairs its status with the progress and the payload of that status.
C5_EntriesWellFormed ==
    /\ \A t \in DOMAIN processing_status : EntryWellFormed(processing_status[t])
    /\ (last.op = "status" /\ last.response.status_code = 200) =>
           EntryWellFormed(last.response.content)

\* The table holds a completed job while a runner stands between two writes
\* of another job.
C5_Witness ==
    \E t, u \in DOMAIN processing_status :
        /\ processing_status[t].status = "completed"
        /\ processing_status[u].status = "analyzing"
        /\ loop = {u}

\* The text extraction of the job has returned an empty text.
EmptyExtraction(t) ==
    /\ t \in returned
    /\ LET extracted == extract_text_from_pdf(pdf_content[t])
       IN  /\ ~ extracted.raised
           /\ strip(extracted.value) = <<>>

\* C6: a job whose text extraction returns an empty text is never ANALYZING
\* nor COMPLETED, its pipeline is never entered, and once its runner has
\* returned its entry is ERROR with the message of the failed extraction.
C6_EmptyTextIsError ==
    \A t \in TaskIds :
        EmptyExtraction(t) =>
            /\ processing_status[t].status \in {"starting", "extracting_text", "error"}
            /\ pc[t] # "analyzing"
            /\ calls[t] = <<>>
            /\ pc[t] = "done" =>
                   processing_status[t] =
                       [status |-> "error",
                        error |-> <<"Could not extract text from PDF">>]

\* The runner of a PDF with a blank page has returned.
C6_Witness ==
    \E t \in TaskIds :
        /\ EmptyExtraction(t)
        /\ pdf_content[t].pages # <<>>
        /\ pc[t] = "done"
        /\ processing_status[t].status = "error"

\* C7: when the extraction of the PDF raises, or the entity extraction or the
\* summary raises in the analysis, the runner leaves the job in ERROR with
\* the message of that failure, without results.
C7_FailureIsError ==
    \A t \in TaskIds :
        pc[t] = "done" =>
            /\ ~ pdf_content[t].readable =>
                   /\ processing_status[t] =
                          [status |-> "error",
                           error |-> <<"Failed to process PDF file: ",
                                       pdf_content[t].exc>>]
                   /\ calls[t] = <<>>
            /\ (calls[t] # <<>> /\ used[t].nlp.raised) =>
                   processing_status[t] = [status |-> "error", error |-> used[t].nlp.exc]
            /\ (calls[t] # <<>> /\ ~ used[t].nlp.raised /\ used[t].t5.raised) =>
                   processing_status[t] = [status |-> "error", error |-> used[t].t5.exc]

\* One runner has returned from a PDF that could not be read, another one
\* from an analysis whose summary raised.
C7_Witness ==
    \E t, u \in TaskIds :
        /\ pc[t] = "done" /\ ~ pdf_content[t].readable
        /\ pc[u] = "done" /\ calls[u] # <<>>
        /\ ~ used[u].nlp.raised /\ used[u].t5.raised

\* C8: every entry of the table is eventually COMPLETED or ERROR.
C8_EventuallyTerminal ==
    \A t \in TaskIds :
        (t \in DOMAIN processing_status) ~>
            (t \in DOMAIN processing_status /\ Terminal(processing_status[t]))

\* C9: an entry that exists is changed only by a step of the runner of its own
\* job, which changes no other entry; the synchronous analysis and the status
\* query leave the table as it was.
C9_OnlyOwnRunnerWrites ==
    [][/\ \A t \in DOMAIN processing_status :
             (t \notin DOMAIN processing_status'
              \/ processing_status'[t] # processing_status[t]) =>
                 /\ last'.op = "background"
                 /\ last'.task_id = t
                 /\ pc[t] \in {"scheduled", "extracting", "analyzing"}
                 /\ pc'[t] # pc[t]
                 /\ \A k \in TaskIds \ {t} : pc'[k] = pc[k]
       /\ last'.op = "background" =>
              \A k \in DOMAIN processing_status \ {last'.task_id} :
                  /\ k \in DOMAIN processing_status'
                  /\ processing_status'[k] = processing_status[k]
       /\ last'.op \in {"analyze", "status"} =>
              processing_status' = processing_status]_vars

\* A runner has just written its first status while another job is still being
\* submitted.
C9_Witness ==
    /\ last.op = "background"
    /\ processing_status[last.task_id].status = "extracting_text"
    /\ \E u \in DOMAIN processing_status :
           u # last.task_id /\ pc[u] = "reading"

\* C10: the synchronous analysis answers with the results exactly when the
\* text is given and neither the entity extraction nor the summary raises; in
\* every other case it answers with an error that carries the message of the
\* failure and none of the results.
C10_SyncAllOrNothing ==
    last.op = "analyze" =>
        LET req == last.request
            resp == last.response
        IN  /\ (resp.status_code = 200) <=>
                   (/\ req.text # <<>>
                    /\ ~ req.models.nlp.raised
                    /\ ~ req.models.t5.raised)
            /\ resp.status_code = 200 =>
                   DOMAIN resp.content =
                       {"document_info", "entities", "key_clauses", "summary",
                        "classification_scores"}
            /\ resp.status_code # 200 =>
                   /\ resp.status_code = 500
                   /\ DOMAIN resp = {"status_code", "detail"}
            /\ (req.text # <<>> /\ req.models.nlp.raised) =>
                   resp.detail = req.models.nlp.exc
            /\ (req.text # <<>> /\ ~ req.models.nlp.raised /\ req.models.t5.raised) =>
                   resp.detail = req.models.t5.exc

\* The summary raised after the entities were extracted, and the call failed.
C10_Witness ==
    /\ last.op = "analyze"
    /\ last.request.text # <<>>
    /\ ~ last.request.models.nlp.raised
    /\ last.request.models.t5.raised
    /\ last.response.status_code = 500

\* The indicators of a type as a set, and those of them the text holds when
\* case is ignored.
KeywordSet(doc_type) ==
    {doc_indicators[doc_type][i] : i \in 1..Len(doc_indicators[doc_type])}

KeywordsPresent(doc_type, t) ==
    {k \in KeywordSet(doc_type) : Contains(lower(t), k)}

\* How often the pipeline was called with the question.
TimesAsked(asked, question) ==
    Cardinality({i \in 1..Len(asked) : asked[i] = question})

\* The questions the specification gives to a document type.
ChosenQuestions(document_type) ==
    CASE document_type = "contract" ->
             {<<"What is ", "the effective date", "?">>,
              <<"Who are the parties", "?">>,
              <<"What are ", "the payment terms", "?">>,
              <<"What is ", "the governing law", "?">>}
      [] document_type = "employment" ->
             {<<"What is ", "the salary", "?">>,
              <<"What is ", "the job title", "?">>,
              <<"When does employment start", "?">>,
              <<"What are ", "the benefits", "?">>}
      [] OTHER ->
             {<<"What are ", "the main terms", "?">>,
              <<"Who are the parties involved", "?">>,
              <<"What are ", "the key obligations", "?">>}

\* C11: whatever the questions on which the QA pipeline raises, the call of
\* the clause extraction does not raise, every other question of the call is
\* asked exactly once, and each of them answered with a confidence above 0.1
\* is in the clauses returned, with its answer and its confidence.
C11_QuestionFailureIsolated ==
    last.op = "extract_key_clauses" =>
        /\ ~ last.raised
        /\ \A q \in ChosenQuestions(last.document_type) :
               ~ last.qa[q].raised =>
                   /\ TimesAsked(last.asked, q) = 1
                   /\ last.qa[q].score > ScoreFloor =>
                          /\ clause_key(q) \in DOMAIN last.result
                          /\ last.result[clause_key(q)] =
                                 [text |-> last.qa[q].answer,
                                  confidence |-> last.qa[q].score]

\* The pipeline raised on the first and on the third question of a contract,
\* and the answers to the second and to the fourth are the clauses returned.
C11_Witness ==
    /\ last.op = "extract_key_clauses"
    /\ last.document_type = "contract"
    /\ last.qa[contract_questions[1]].raised
    /\ last.qa[contract_questions[3]].raised
    /\ DOMAIN last.result = {clause_key(contract_questions[2]),
                             clause_key(contract_questions[4])}

\* C12: every clause returned by the clause extraction has a confidence
\* strictly above 0.1, whatever the document type and the answers of the QA
\* pipeline.
C12_ClausesAboveFloor ==
    last.op = "extract_key_clauses" =>
        \A k \in DOMAIN last.result : last.result[k].confidence > ScoreFloor

\* An answer with a confidence of exactly 0.1 was dropped and one above 0.1
\* to a later question was kept.
C12_Witness ==
    /\ last.op = "extract_key_clauses"
    /\ last.document_type = "employment"
    /\ ~ last.qa[employment_questions[2]].raised
    /\ last.qa[employment_questions[2]].score = ScoreFloor
    /\ clause_key(employment_questions[2]) \notin DOMAIN last.result
    /\ clause_key(employment_questions[3]) \in DOMAIN last.result

\* C13: for every text the score of each of the five types is the number of
\* its indicators present in the text, case ignored, each counted once, over
\* the number of its indicators, and so lies in [0,1]; the predicted type has
\* the highest score and is the first declared of the types that have it;
\* the confidence is the score of the predicted type.
C13_ClassifierScores ==
    last.op = "classify_document_type" =>
        LET res == last.result
            Score(i) == res.all_scores[DocTypes[i]]
        IN  /\ DOMAIN res.all_scores = {DocTypes[i] : i \in 1..Len(DocTypes)}
            /\ \A i \in 1..Len(DocTypes) :
                   /\ Score(i)[1] * Cardinality(KeywordSet(DocTypes[i]))
                          = Cardinality(KeywordsPresent(DocTypes[i], last.text))
                              * Score(i)[2]
                   /\ Score(i)[2] > 0
                   /\ 0 <= Score(i)[1]
                   /\ Score(i)[1] <= Score(i)[2]
            /\ \E p \in 1..Len(DocTypes) :
                   /\ res.document_type = DocTypes[p]
                   /\ \A j \in 1..Len(DocTypes) :
                          Score(j)[1] * Score(p)[2] <= Score(p)[1] * Score(j)[2]
                   /\ \A j \in 1..(p - 1) :
                          Score(j)[1] * Score(p)[2] < Score(p)[1] * Score(j)[2]
                   /\ res.confidence = Score(p)

\* A text with one indicator of license and one of employment, a quarter of
\* the indicators of each, was classified as license, declared first.
C13_Witness ==
    /\ last.op = "classify_document_type"
    /\ last.text = <<"s","a","l","a","r","y"," ","g","r","a","n","t">>
    /\ last.result.document_type = "license"
    /\ last.result.confidence = <<1, 4>>
    /\ last.result.all_scores["employment"] = <<1, 4>>

\* C14: the normalizer is idempotent, its output holds no newline and no
\* tab (no whitespace character but the space), no two whitespace characters
\* in a row and no whitespace at either end, and the empty text gives the
\* empty text.
C14_NormalizerIdempotent ==
    last.op = "preprocess_text" =>
        LET out == last.result
        IN  /\ preprocess_text(out) = out
            /\ \A i \in 1..Len(out) : out[i] \notin {"\n", "\t"}
            /\ \A i \in 1..Len(out) : out[i] \in Whitespace => out[i] = " "
            /\ \A i \in 1..(Len(out) - 1) :
                   ~ (out[i] \in Whitespace /\ out[i + 1] \in Whitespace)
            /\ out # <<>> => (out[1] \notin Whitespace /\ out[Len(out)] \notin Whitespace)
            /\ last.text = <<>> => out = <<>>

\* A text that starts with a newline and holds a tab followed by a space
\* between two words was normalized to the two words and one space.
C14_Witness ==
    /\ last.op = "preprocess_text"
    /\ last.text = <<"\n", "a", "\t", " ", "a">>
    /\ last.result = <<"a", " ", "a">>

\* The place in ents of the first entity with the label and the span.
FirstAt(ents, label, span) ==
    CHOOSE i \in 1..Len(ents) :
        /\ ents[i] = [label_ |-> label, text |-> span]
        /\ \A j \in 1..(i - 1) : ents[j] # ents[i]

\* C15: for every sequence of entities of the NER model, each of PERSON, ORG,
\* DATE, MONEY and GPE maps to the spans with that label, no span twice, in
\* the order in which each span occurs first; a span with another label is
\* in no category.
C15_EntitiesDistinct ==
    (last.op = "extract_legal_entities" /\ ~ last.result.raised) =>
        \A label \in {"PERSON", "ORG", "DATE", "MONEY", "GPE"} :
            LET spans == last.result.value[label]
                ents == last.nlp.ents
            IN  /\ {spans[i] : i \in 1..Len(spans)} =
                       {ents[i].text : i \in {j \in 1..Len(ents) : ents[j].label_ = label}}
                /\ \A i, j \in 1..Len(spans) :
                       i < j => /\ spans[i] # spans[j]
                                /\ FirstAt(ents, label, spans[i])
                                       < FirstAt(ents, label, spans[j])

\* C16: a synchronous request with an empty text is answered with a client
\* error, whose status differs from the 500 of a failure of a collaborator,
\* and enters no stage of the pipeline.
C16_EmptyTextIsClientError ==
    (last.op = "analyze" /\ last.request.text = <<>>) =>
        /\ last.response.status_code # 200
        /\ last.response.status_code # 500
        /\ last.calls = <<>>

\* The order of the stages of one analysis.
StageOrder == <<"preprocess_text", "classify_document_type", "extract_legal_entities",
                "extract_key_clauses", "generate_summary">>

\* C17: in every analysis the stages entered are the first ones of the order
\* normalize, classify, extract entities, extract clauses, summarize, each
\* once; a call that succeeds has entered all five and assembled its result;
\* a call in which a stage raised has entered no stage after it; and the
\* clause extraction is given the document type this call's classification
\* produced, and asks the questions of that type.
C17_StagesInOrder ==
    last.op = "analyze_document" =>
        LET res == last.result
            m == last.models
            n == Len(res.calls)
        IN  /\ n <= Len(StageOrder)
            /\ res.calls = SubSeq(StageOrder, 1, n)
            /\ ~ res.raised =>
                   /\ n = Len(StageOrder)
                   /\ DOMAIN res.value = {"document_info", "entities", "key_clauses",
                                          "summary", "classification_scores"}
            /\ m.nlp.raised => (res.raised /\ res.calls[n] = "extract_legal_entities")
            /\ (~ m.nlp.raised /\ m.t5.raised) =>
                   (res.raised /\ res.calls[n] = "generate_summary")
            /\ res.raised = (m.nlp.raised \/ m.t5.raised)
            /\ n >= 4 =>
                   /\ res.clause_type =
                          classify_document_type(preprocess_text(last.text)).document_type
                   /\ {res.asked[i] : i \in 1..Len(res.asked)} =
                          ChosenQuestions(res.clause_type)
                   /\ Len(res.asked) = Cardinality(ChosenQuestions(res.clause_type))

\* A text about a salary went through the five stages in order, and the
\* clause extraction was given the type employment of its classification.
C17_Witness ==
    /\ last.op = "analyze_document"
    /\ last.text = <<"S","a","l","a","r","y","\t","$","1",",","5","0","0",".","0","0","\r","\n">>
    /\ ~ last.result.raised
    /\ last.result.calls = StageOrder
    /\ last.result.clause_type = "employment"
    /\ last.result.value.document_info.type = "employment"

\* C18: the clause extraction sends to the QA pipeline each question of the
\* set of its document type exactly once and no other question: the four
\* contract questions for contract, the four employment questions for
\* employment, the three generic questions for every other type.
C18_QuestionSetByType ==
    last.op = "extract_key_clauses" =>
        /\ \A q \in AllQuestions :
               TimesAsked(last.asked, q) =
                   IF q \in ChosenQuestions(last.document_type) THEN 1 ELSE 0
        /\ \A i \in 1..Len(last.asked) : last.asked[i] \in AllQuestions
        /\ Cardinality(ChosenQuestions(last.document_type)) =
               IF last.document_type \in {"contract", "employment"} THEN 4 ELSE 3

\* The four employment questions, and no other, were asked for an employment
\* document.
C18_Witness ==
    /\ last.op = "extract_key_clauses"
    /\ last.document_type = "employment"
    /\ Len(last.asked) = 4
    /\ {last.asked[i] : i \in 1..4} = ChosenQuestions("employment")

\* C19: a submit that has failed has left no entry in the table: every entry
\* belongs to a submit that is still being handled or whose id was returned
\* with a background task added for it.
C19_FailedSubmitLeavesNoEntry ==
    \A t \in DOMAIN processing_status :
        /\ pc[t] # "failed"
        /\ pc[t] = "reading" \/ t \in returned

====
